---- MODULE Spec2Model ----
(***************************************************************************)
(* CSV ingestion and validation pipeline of the CSVUpload component        *)
(* (src/src/components/CSVUpload.tsx) and of the ChatInterface that mounts *)
(* it.  Cells, file names and messages are TLA+ strings; a position in a   *)
(* string is 0-based as in JavaScript.                                     *)
(***************************************************************************)
EXTENDS Integers, Sequences, FiniteSets, TLC

\* ------------------------------------------------------------------ bounds

\* processFile calls (select / drop events) in one behaviour
MaxAttempts == 3
\* times the ChatInterface mounts a CSVUpload instance in one behaviour
MaxMounts == 2
\* cells per row and rows per table of the tables enumerated for validateCSVContent
MaxCols == 2
MaxRows == 2
\* characters per string of the strings enumerated for sanitizeCell
MaxLen == 3

\* ------------------------------------------------------- program constants

MAX_FILE_SIZE == 10485760
MAX_ROWS == 100000
\* sanitizedData.slice(0, 5)
PREVIEW_ROWS == 5

\* ------------------------------------------------------------ JS strings

\* s.charAt(i), "" when i is out of range
CharAt(s, i) == IF i >= 0 /\ i < Len(s) THEN SubSeq(s, i + 1, i + 1) ELSE ""

UpperLetters == "ABCDEFGHIJKLMNOPQRSTUVWXYZ"
LowerLetters == "abcdefghijklmnopqrstuvwxyz"
Digits == "0123456789"

CharsOf(s) == {CharAt(s, i) : i \in 0..(Len(s) - 1)}

\* the regular expression class \w
WordChars == CharsOf(UpperLetters) \cup CharsOf(LowerLetters) \cup CharsOf(Digits) \cup {"_"}
\* the regular expression class \s (the ASCII members that the model's inputs use)
SpaceChars == {" ", "\t", "\n", "\r"}

\* canonicalisation of one character under the i flag
FoldChar(c) ==
    IF c \in CharsOf(UpperLetters)
    THEN CharAt(LowerLetters, (CHOOSE i \in 0..25 : CharAt(UpperLetters, i) = c))
    ELSE c

RECURSIVE FoldStr(_)
FoldStr(s) == IF s = "" THEN "" ELSE FoldChar(CharAt(s, 0)) \o FoldStr(SubSeq(s, 2, Len(s)))

\* the literal lit (given folded) stands in s at position p, ignoring case
LitAtCI(s, p, lit) ==
    /\ p >= 0
    /\ p + Len(lit) <= Len(s)
    /\ FoldStr(SubSeq(s, p + 1, p + Len(lit))) = lit

\* the assertion \b at position p of s
WordBoundary(s, p) == (CharAt(s, p - 1) \in WordChars) # (CharAt(s, p) \in WordChars)

\* String.prototype.endsWith
EndsWith(s, suffix) ==
    /\ Len(suffix) <= Len(s)
    /\ SubSeq(s, Len(s) - Len(suffix) + 1, Len(s)) = suffix

IsSpace(c) == c \in SpaceChars

RECURSIVE TrimStart(_)
TrimStart(s) == IF s # "" /\ IsSpace(CharAt(s, 0)) THEN TrimStart(SubSeq(s, 2, Len(s))) ELSE s

RECURSIVE TrimEnd(_)
TrimEnd(s) ==
    IF s # "" /\ IsSpace(CharAt(s, Len(s) - 1)) THEN TrimEnd(SubSeq(s, 1, Len(s) - 1)) ELSE s

\* String.prototype.trim
Trim(s) == TrimEnd(TrimStart(s))

\* s.replace(/[chars]/g, "")
RECURSIVE RemoveChars(_, _)
RemoveChars(s, chars) ==
    IF s = "" THEN ""
    ELSE (IF CharAt(s, 0) \in chars THEN "" ELSE CharAt(s, 0))
             \o RemoveChars(SubSeq(s, 2, Len(s)), chars)

\* ---------------------------------------------------- regular expressions

\* /^[a-zA-Z0-9_\s]+$/
headerPattern(s) ==
    /\ Len(s) >= 1
    /\ \A i \in 0..(Len(s) - 1) : CharAt(s, i) \in WordChars \cup SpaceChars

SqlKeywords ==
    {"select", "insert", "update", "delete", "drop", "create", "alter", "exec", "union"}
SqlTokens == {"--", ";", "/*", "*/", "xp_", "sp_"}

\* End (exclusive) of the match of sqlPatterns that starts exactly at position p
\* of s, -1 when none starts there.  The keyword alternative is tried first.
SqlMatchEnd(s, p) ==
    LET kw == {k \in SqlKeywords :
                   /\ WordBoundary(s, p)
                   /\ LitAtCI(s, p, k)
                   /\ WordBoundary(s, p + Len(k))}
        tk == {t \in SqlTokens : LitAtCI(s, p, t)}
    IN  IF kw # {} THEN p + Len(CHOOSE k \in kw : TRUE)
        ELSE IF tk # {} THEN p + Len(CHOOSE t \in tk : TRUE)
        ELSE -1

\* positions q >= from at which the closing tag </script> stands
CloseTagAt(s, from) == {q \in from..Len(s) : LitAtCI(s, q, "</script>")}

Min(S) == CHOOSE x \in S : \A y \in S : x <= y

\* the first position >= p whose character is not in chars (Len(s) when none)
SkipWhile(s, p, chars) ==
    Min({q \in p..Len(s) : CharAt(s, q) \notin chars})

\* End (exclusive) of the match of scriptPatterns that starts exactly at p, -1
\* when none.  <script\b[^<]*(?:(?!<\/script>)<[^<]*)*<\/script> runs from the
\* opening tag to the first closing tag after it; on\w+\s*= takes the whole run
\* of word characters, then the whole run of white space, then "=".
ScriptMatchEnd(s, p) ==
    IF /\ LitAtCI(s, p, "<script")
       /\ WordBoundary(s, p + 7)
       /\ CloseTagAt(s, p + 7) # {}
    THEN Min(CloseTagAt(s, p + 7)) + 9
    ELSE IF LitAtCI(s, p, "javascript:") THEN p + 11
    ELSE IF /\ LitAtCI(s, p, "on")
            /\ CharAt(s, p + 2) \in WordChars
            /\ CharAt(s, SkipWhile(s, SkipWhile(s, p + 2, WordChars), SpaceChars)) = "="
    THEN SkipWhile(s, SkipWhile(s, p + 2, WordChars), SpaceChars) + 1
    ELSE -1

\* RegExp.prototype.test of a global (g flag) expression: the search starts at
\* lastIndex; a match leaves lastIndex at its end, a failure resets it to 0.
\* matchEnd[p] is the end of the match that starts at p, -1 when none does.
RegExpTest(matchEnd, s, lastIndex) ==
    LET starts == {p \in lastIndex..Len(s) : matchEnd[p] # -1}
    IN  IF lastIndex > Len(s) \/ starts = {}
        THEN [matched |-> FALSE, lastIndex |-> 0]
        ELSE [matched |-> TRUE, lastIndex |-> matchEnd[Min(starts)]]

SqlMatchEnds(s) == [p \in 0..Len(s) |-> SqlMatchEnd(s, p)]
ScriptMatchEnds(s) == [p \in 0..Len(s) |-> ScriptMatchEnd(s, p)]

\* ------------------------------------------------------------------- cells

\* The cell values the parser may deliver in this model.
CleanCells == {"0", "1", "id", "name", "ok", "first name"}
HeaderOnlyCells == {"na-me", "O'Brien", " <b>x</b> ", ""}
InjectionCells == {"DROP TABLE", "<script>alert(1)</script>", "a;onload=b"}
Cells == CleanCells \cup HeaderOnlyCells \cup InjectionCells

Max(S) == CHOOSE x \in S : \A y \in S : x >= y
MaxCellLen == Max({Len(c) : c \in Cells})

\* The two expressions' test on every cell from every lastIndex, computed once.
SqlTests ==
    [s \in Cells |-> [lastIndex \in 0..MaxCellLen |-> RegExpTest(SqlMatchEnds(s), s, lastIndex)]]
ScriptTests ==
    [s \in Cells |-> [lastIndex \in 0..MaxCellLen |-> RegExpTest(ScriptMatchEnds(s), s, lastIndex)]]
HeaderTests == [s \in Cells |-> headerPattern(s)]

\* sqlPatterns.test(cellStr) and scriptPatterns.test(cellStr) at a given lastIndex
sqlPatternsTest(s, lastIndex) == SqlTests[s][lastIndex]
scriptPatternsTest(s, lastIndex) == ScriptTests[s][lastIndex]

\* ------------------------------------------------------------ parsed data

\* A parsed table (results.data) is [rows, fill]: the rows written out, followed
\* by fill further rows that each equal FillerRow.  This keeps a table of more
\* than MAX_ROWS rows representable; data.length is Len(rows) + fill.
FillerRow == <<"0">>

DataLength(data) == Len(data.rows) + data.fill

\* data[i - 1], for 1 <= i <= data.length
RowAt(data, i) == IF i <= Len(data.rows) THEN data.rows[i] ELSE FillerRow

Table(rows) == [rows |-> rows, fill |-> 0]

\* -------------------------------------------------------- validateCSVContent

EmptyMsg == "CSV file is empty"
\* MAX_ROWS.toLocaleString() groups the digits (en-US)
RowLimitMsg == "CSV exceeds maximum row limit of 100,000"
\* Mutant: the column is named by its 0-based index.
HeaderMsgZeroBased(col, header) ==
    "Invalid header at column " \o ToString(col - 1) \o ": \"" \o header \o "\""

HeaderMsg(col, header) ==
    "Invalid header at column " \o ToString(col) \o ": \"" \o header \o "\""
SqlMsg(row, col) ==
    "Potential SQL injection detected at row " \o ToString(row)
        \o ", column " \o ToString(col)
ScriptMsg(row, col) ==
    "Potential script injection detected at row " \o ToString(row)
        \o ", column " \o ToString(col)

\* if (data.length > MAX_ROWS) errors.push(...)
RowLimitErrors(data) == IF DataLength(data) > MAX_ROWS THEN <<RowLimitMsg>> ELSE <<>>

\* headers.forEach((header, index) => ...), from column col (1-based) on
RECURSIVE HeaderErrorsFrom(_, _)
HeaderErrorsFrom(headers, col) ==
    IF col > Len(headers) THEN <<>>
    ELSE (IF ~HeaderTests[headers[col]] THEN <<HeaderMsg(col, headers[col])>> ELSE <<>>)
             \o HeaderErrorsFrom(headers, col + 1)

HeaderErrors(data) == HeaderErrorsFrom(RowAt(data, 1), 1)

\* The body of the inner forEach for one cell.  st carries the errors pushed so
\* far and the lastIndex of the two global regular expressions, which are
\* created once per validateCSVContent call and shared by all cells.
ScanCell(st, cell, row, col) ==
    LET a == sqlPatternsTest(cell, st.sqlLastIndex)
        b == scriptPatternsTest(cell, st.scriptLastIndex)
    IN  [errors |-> st.errors
                      \o (IF a.matched THEN <<SqlMsg(row, col)>> ELSE <<>>)
                      \o (IF b.matched THEN <<ScriptMsg(row, col)>> ELSE <<>>),
         sqlLastIndex |-> a.lastIndex,
         scriptLastIndex |-> b.lastIndex]

RECURSIVE ScanRow(_, _, _, _)
ScanRow(st, cells, row, col) ==
    IF col > Len(cells) THEN st
    ELSE ScanRow(ScanCell(st, cells[col], row, col), cells, row, col + 1)

RECURSIVE ScanRows(_, _, _)
ScanRows(st, data, row) ==
    IF row > Len(data.rows) THEN st
    ELSE ScanRows(ScanRow(st, data.rows[row], row, 1), data, row + 1)

\* The rows after the written ones all equal FillerRow, whose cell matches
\* neither expression: the first of them resets both lastIndex to 0 and pushes
\* nothing, and the others repeat that, so one scan stands for all of them.
ScanFill(st, data) ==
    IF data.fill = 0 THEN st ELSE ScanRow(st, FillerRow, Len(data.rows) + 1, 1)

\* data.forEach((row, rowIndex) => row.forEach((cell, colIndex) => ...))
InjectionErrors(data) ==
    ScanFill(ScanRows([errors |-> <<>>, sqlLastIndex |-> 0, scriptLastIndex |-> 0],
                      data, 1),
             data).errors

\* Mutant: the report is always valid.
ReportAlwaysValid(errors) == [isValid |-> TRUE, errors |-> errors]

\* Mutant: one violation is tolerated.
ReportOffByOne(errors) == [isValid |-> Len(errors) <= 1, errors |-> errors]

\* return { isValid: errors.length === 0, errors }
Report(errors) == [isValid |-> Len(errors) = 0, errors |-> errors]

\* Mutant: the early return without the push.
EmptyReportNoPush == [isValid |-> FALSE, errors |-> <<>>]

\* if (data.length === 0) { errors.push("CSV file is empty"); return {...} }
EmptyReport == [isValid |-> FALSE, errors |-> <<EmptyMsg>>]

validateCSVContent(data) ==
    IF DataLength(data) = 0 THEN EmptyReport
    ELSE Report(RowLimitErrors(data) \o HeaderErrors(data) \o InjectionErrors(data))

\* --------------------------------------------------------------- sanitizeCell

\* A TLA+ string cannot hold the grave accent, so "~" stands for it in every
\* string of this module; no input of the model holds a real tilde.  Both are
\* outside \w and \s and occur in no pattern of validateCSVContent.
Backtick == "~"

\* Mutant: white space is trimmed before the characters are removed.
sanitizeCellTrimFirst(value) ==
    RemoveChars(RemoveChars(Trim(value), {"<", ">"}), {"'", "\"", Backtick, ";"})

\* String(value).replace(/[<>]/g, "").replace(/['"`;]/g, "").trim()
sanitizeCell(value) ==
    Trim(RemoveChars(RemoveChars(value, {"<", ">"}), {"'", "\"", Backtick, ";"}))

\* Mutant: the rows are stored as parsed, without the map over sanitizeCell.
SanitizedRowAsParsed(cells) == cells

\* Mutant: the whole sanitized table is stored, without the slice.
PreviewLengthWholeTable(data) == DataLength(data)

\* data.map((row) => row.map(sanitizeCell)).slice(0, 5)
SanitizedCells == [s \in Cells |-> sanitizeCell(s)]
SanitizedRow(cells) == [c \in 1..Len(cells) |-> SanitizedCells[cells[c]]]

PreviewLength(data) ==
    IF DataLength(data) < PREVIEW_ROWS THEN DataLength(data) ELSE PREVIEW_ROWS

SanitizedPreview(data) == [r \in 1..PreviewLength(data) |-> SanitizedRow(RowAt(data, r))]

\* ------------------------------------------------------- component state

VARIABLES
    showUpload,     \* ChatInterface: whether a CSVUpload instance is mounted
    mount,          \* number of the CSVUpload instance mounted last
    file,           \* useState<File | null>: Null or Some(file)
    preview,        \* useState<string[][] | null>: Null or Some(rows)
    isValidating,   \* useState(false)
    parses,         \* Papa.parse calls whose callback has not been delivered yet
    attemptLog,     \* history: one record per processFile call
    previewSrc,     \* history: the attempt and parsed table the preview was built from
    uploads,        \* history: the onUpload(file, preview) events
    validated,      \* history: the table validated last and validateCSVContent's report
    last,           \* history: the handler that ran last and its outcome
    cellValue,      \* a value handed to sanitizeCell on its own
    cellImages      \* the results of sanitizeCell applied to it, once and again

vars ==
    <<showUpload, mount, file, preview, isValidating, parses, attemptLog,
      previewSrc, uploads, validated, last, cellValue, cellImages>>

Null == <<>>
Some(v) == <<v>>
Get(opt) == opt[1]

\* Messages of the parser's error callback.
ParseErrorMessages == {"Unable to read file"}

\* ------------------------------------------------------------------ toasts

Toast(title, description, variant) ==
    [title |-> title, description |-> description, variant |-> variant]

\* `Maximum file size is ${MAX_FILE_SIZE / 1024 / 1024}MB`
FileTooLargeToast ==
    Toast("File too large",
          "Maximum file size is " \o ToString(MAX_FILE_SIZE \div (1024 * 1024)) \o "MB",
          "destructive")
InvalidTypeToast == Toast("Invalid file type", "Please upload a CSV file", "destructive")
\* Mutant: the description is the violation found last.
ValidationFailedToastLastError(errors) ==
    Toast("Security validation failed",
          IF Len(errors) >= 1 THEN errors[Len(errors)] ELSE "undefined", "destructive")

\* description: validation.errors[0], undefined when the list is empty
ValidationFailedToast(errors) ==
    Toast("Security validation failed",
          IF Len(errors) >= 1 THEN errors[1] ELSE "undefined",
          "destructive")
ParseErrorToast(message) == Toast("Parse error", message, "destructive")
FileValidatedToast == Toast("File validated", "CSV file passed security checks", "default")

\* ------------------------------------------------------------- processFile

\* Mutant: the extension is checked before the size.
IntakeGuardExtensionFirst(f) ==
    IF ~EndsWith(f.name, ".csv")
    THEN [kind |-> "InvalidExtension", toasts |-> <<InvalidTypeToast>>]
    ELSE IF f.size > MAX_FILE_SIZE
    THEN [kind |-> "FileTooLarge", toasts |-> <<FileTooLargeToast>>]
    ELSE [kind |-> "pass", toasts |-> <<>>]

\* Mutant: the extension is compared ignoring case.
IntakeGuardAnyCase(f) ==
    IF f.size > MAX_FILE_SIZE
    THEN [kind |-> "FileTooLarge", toasts |-> <<FileTooLargeToast>>]
    ELSE IF ~EndsWith(FoldStr(f.name), ".csv")
    THEN [kind |-> "InvalidExtension", toasts |-> <<InvalidTypeToast>>]
    ELSE [kind |-> "pass", toasts |-> <<>>]

\* Mutant: the size guard toasts but does not return.
IntakeGuardNoReturn(f) ==
    LET sizeToasts == IF f.size > MAX_FILE_SIZE THEN <<FileTooLargeToast>> ELSE <<>>
    IN  IF ~EndsWith(f.name, ".csv")
        THEN [kind |-> "InvalidExtension", toasts |-> sizeToasts \o <<InvalidTypeToast>>]
        ELSE [kind |-> "pass", toasts |-> sizeToasts]

\* The two guards at the head of processFile, in the order of the code.
\* Each rejects with one toast and returns; "pass" goes on to Papa.parse.
IntakeGuard(f) ==
    IF f.size > MAX_FILE_SIZE
    THEN [kind |-> "FileTooLarge", toasts |-> <<FileTooLargeToast>>]
    ELSE IF ~EndsWith(f.name, ".csv")
    THEN [kind |-> "InvalidExtension", toasts |-> <<InvalidTypeToast>>]
    ELSE [kind |-> "pass", toasts |-> <<>>]

\* ------------------------------------------------------------------ inputs

\* Candidate files offered by the file input or a drop: name and size in bytes.
CandidateFiles ==
    { [name |-> "data.csv", size |-> MAX_FILE_SIZE],
      [name |-> "data.csv", size |-> MAX_FILE_SIZE + 1],
      [name |-> "data.CSV", size |-> 1024],
      [name |-> "notes.txt", size |-> MAX_FILE_SIZE + 1] }

\* Tables the parser may deliver to the complete callback: an empty one, valid
\* ones of 3 and of 200 rows with cells sanitizeCell changes, and an invalid one.
ParsedTables ==
    { Table(<<>>),
      [rows |-> <<<<"id", "name">>, <<"1", "O'Brien">>>>, fill |-> 1],
      [rows |-> <<<<"id", "name">>, <<"1", " <b>x</b> ">>>>, fill |-> 198],
      Table(<<<<"id", "na-me">>, <<"DROP TABLE", "DROP TABLE">>>>) }

\* the guards' verdict on each candidate file, computed once
GuardOf == [f \in CandidateFiles |-> IntakeGuard(f)]

Attempt(f, parseCalls, toasts, outcome) ==
    [file |-> f, mount |-> mount, parseCalls |-> parseCalls, toasts |-> toasts,
     outcome |-> outcome]

Last(op, attempt, outcome) == [op |-> op, attempt |-> attempt, outcome |-> outcome]

\* The drop zone and the file input are rendered only while file is null.
CanSelect == showUpload /\ file = Null /\ Len(attemptLog) < MaxAttempts

\* processFile(selectedFile), called by handleFileInput and handleDrop
processFile(f) ==
    LET a == Len(attemptLog) + 1
        guard == GuardOf[f]
        selectedFile == [name |-> f.name, size |-> f.size, attempt |-> a]
    IN  /\ CanSelect
        /\ IF guard.kind # "pass"
           THEN /\ attemptLog' = Append(attemptLog,
                                        Attempt(selectedFile, 0, guard.toasts, guard.kind))
                /\ last' = Last("processFile", a, guard.kind)
                /\ UNCHANGED <<file, isValidating, parses>>
           ELSE /\ isValidating' = TRUE
                /\ file' = Some(selectedFile)
                /\ parses' = parses \cup {[attempt |-> a, mount |-> mount]}
                /\ attemptLog' = Append(attemptLog, Attempt(selectedFile, 1, guard.toasts, "Parsing"))
                /\ last' = Last("processFile", a, "Parsing")
        /\ UNCHANGED <<showUpload, mount, preview, previewSrc, uploads, validated,
                       cellValue, cellImages>>

\* A state setter called by a callback of an unmounted instance changes nothing.
IsMounted(p) == showUpload /\ p.mount = mount

Logged(a, toast, outcome) ==
    [attemptLog EXCEPT ![a].toasts = Append(@, toast), ![a].outcome = outcome]

\* Papa.parse's complete callback for the outstanding parse p, with results.data
ParseComplete(p, data) ==
    LET validation == validateCSVContent(data)
    IN  /\ p \in parses
        /\ parses' = parses \ {p}
        /\ validated' = Some([data |-> data, report |-> validation])
        /\ IF ~validation.isValid
           THEN /\ attemptLog' = Logged(p.attempt, ValidationFailedToast(validation.errors),
                                        "SecurityValidationFailed")
                /\ last' = Last("complete", p.attempt, "SecurityValidationFailed")
                /\ IF IsMounted(p)
                   THEN isValidating' = FALSE /\ file' = Null
                   ELSE UNCHANGED <<isValidating, file>>
                /\ UNCHANGED <<preview, previewSrc>>
           ELSE /\ attemptLog' = Logged(p.attempt, FileValidatedToast, "Ready")
                /\ last' = Last("complete", p.attempt, "Ready")
                /\ IF IsMounted(p)
                   THEN /\ preview' = Some(SanitizedPreview(data))
                        /\ previewSrc' = Some([attempt |-> p.attempt, data |-> data])
                        /\ isValidating' = FALSE
                   ELSE UNCHANGED <<preview, previewSrc, isValidating>>
                /\ UNCHANGED file
        /\ UNCHANGED <<showUpload, mount, uploads, cellValue, cellImages>>

\* Mutant: the error callback hands the file to the parser once more before
\* it gives up.
ParseErrorRetry(p, message) ==
    /\ p \in parses
    /\ IF attemptLog[p.attempt].parseCalls < 2
       THEN /\ parses' = parses
            /\ attemptLog' = [attemptLog EXCEPT ![p.attempt].parseCalls = @ + 1]
            /\ last' = Last("error", p.attempt, "Parsing")
            /\ UNCHANGED <<isValidating, file>>
       ELSE /\ parses' = parses \ {p}
            /\ attemptLog' = Logged(p.attempt, ParseErrorToast(message), "ParseFailure")
            /\ last' = Last("error", p.attempt, "ParseFailure")
            /\ IF IsMounted(p)
               THEN isValidating' = FALSE /\ file' = Null
               ELSE UNCHANGED <<isValidating, file>>
    /\ UNCHANGED <<showUpload, mount, preview, previewSrc, uploads, validated,
                   cellValue, cellImages>>

\* Papa.parse's error callback for the outstanding parse p
ParseError(p, message) ==
    /\ p \in parses
    /\ parses' = parses \ {p}
    /\ attemptLog' = Logged(p.attempt, ParseErrorToast(message), "ParseFailure")
    /\ last' = Last("error", p.attempt, "ParseFailure")
    /\ IF IsMounted(p)
       THEN isValidating' = FALSE /\ file' = Null
       ELSE UNCHANGED <<isValidating, file>>
    /\ UNCHANGED <<showUpload, mount, preview, previewSrc, uploads, validated,
                   cellValue, cellImages>>

\* The Clear button, rendered while file is not null
Clear ==
    /\ showUpload
    /\ file # Null
    /\ file' = Null
    /\ preview' = Null
    /\ previewSrc' = Null
    /\ last' = Last("clear", 0, "none")
    /\ UNCHANGED <<showUpload, mount, isValidating, parses, attemptLog, uploads, validated,
                   cellValue, cellImages>>

InitialState ==
    /\ file' = Null
    /\ preview' = Null
    /\ previewSrc' = Null
    /\ isValidating' = FALSE

\* The Upload & Analyze button (rendered while file is not null, disabled while
\* isValidating) runs handleUpload; onUpload is ChatInterface's handleCSVUpload,
\* which records the upload and unmounts the CSVUpload instance.
handleUpload ==
    /\ showUpload
    /\ file # Null
    /\ ~isValidating
    /\ IF preview # Null
       THEN /\ uploads' = Append(uploads, [file |-> Get(file), preview |-> Get(preview),
                                           src |-> previewSrc,
                                           outstanding |-> {p.attempt : p \in parses}])
            /\ showUpload' = FALSE
            /\ InitialState
            /\ last' = Last("upload", Get(file).attempt, "uploaded")
       ELSE /\ last' = Last("upload", Get(file).attempt, "none")
            /\ UNCHANGED <<uploads, showUpload, file, preview, previewSrc, isValidating>>
    /\ UNCHANGED <<mount, parses, attemptLog, validated, cellValue, cellImages>>

\* onCancel: ChatInterface unmounts the CSVUpload instance
onCancel ==
    /\ showUpload
    /\ showUpload' = FALSE
    /\ InitialState
    /\ last' = Last("cancel", 0, "none")
    /\ UNCHANGED <<mount, parses, attemptLog, uploads, validated, cellValue, cellImages>>

\* ChatInterface's upload button mounts a fresh CSVUpload instance
OpenUpload ==
    /\ ~showUpload
    /\ mount < MaxMounts
    /\ showUpload' = TRUE
    /\ mount' = mount + 1
    /\ InitialState
    /\ last' = Last("open", 0, "none")
    /\ UNCHANGED <<parses, attemptLog, uploads, validated, cellValue, cellImages>>

Init ==
    /\ showUpload = FALSE
    /\ mount = 0
    /\ file = Null
    /\ preview = Null
    /\ isValidating = FALSE
    /\ parses = {}
    /\ attemptLog = <<>>
    /\ previewSrc = Null
    /\ uploads = <<>>
    /\ validated = Null
    /\ last = Last("init", 0, "none")
    /\ cellValue = ""
    /\ cellImages = <<>>

Next ==
    \/ OpenUpload
    \/ onCancel
    \/ \E f \in CandidateFiles : processFile(f)
    \/ \E p \in parses : \E data \in ParsedTables : ParseComplete(p, data)
    \/ \E p \in parses : \E message \in ParseErrorMessages : ParseError(p, message)
    \/ Clear
    \/ handleUpload

Spec == Init /\ [][Next]_vars

\* The parser delivers the callback of the parse call of attempt a.
Deliver(a) ==
    \E p \in parses :
        /\ p.attempt = a
        /\ \/ \E data \in ParsedTables : ParseComplete(p, data)
           \/ \E message \in ParseErrorMessages : ParseError(p, message)

\* Papa.parse calls complete or error for every parse call it has accepted.
SpecFair == Spec /\ \A a \in 1..MaxAttempts : WF_vars(Deliver(a))

\* ------------------------------------- validateCSVContent on enumerated tables

\* Every table of at most MaxRows rows of at most MaxCols cells over three cell
\* values (a clean one, one the SQL expression matches, one the script
\* expression matches and the header pattern rejects), and further tables: at
\* the row limit, with header cells the header pattern alone rejects, and with
\* a cell that both expressions match.
ValidateCells == {"id", "DROP TABLE", "<script>alert(1)</script>"}
ValidateRows == UNION {[1..n -> ValidateCells] : n \in 0..MaxCols}
FurtherTables ==
    { [rows |-> <<<<"id">>>>, fill |-> MAX_ROWS - 1],
      [rows |-> <<<<"id">>>>, fill |-> MAX_ROWS],
      Table(<<<<"id", "na-me", "">>, <<"na-me", "ok">>>>),
      Table(<<<<"first name", "a;onload=b">>, <<"a;onload=b", "DROP TABLE">>>>) }
ValidateTables ==
    {Table(rows) : rows \in UNION {[1..n -> ValidateRows] : n \in 0..MaxRows}}
        \cup FurtherTables

FirstParse == [attempt |-> 1, mount |-> 1]

\* The state after the first processFile call has passed the guards.
InitParsing ==
    /\ showUpload = TRUE
    /\ mount = 1
    /\ file = Some([name |-> "data.csv", size |-> MAX_FILE_SIZE, attempt |-> 1])
    /\ preview = Null
    /\ isValidating = TRUE
    /\ parses = {FirstParse}
    /\ attemptLog = <<[file |-> Get(file), mount |-> 1, parseCalls |-> 1,
                       toasts |-> <<>>, outcome |-> "Parsing"]>>
    /\ previewSrc = Null
    /\ uploads = <<>>
    /\ validated = Null
    /\ last = Last("processFile", 1, "Parsing")
    /\ cellValue = ""
    /\ cellImages = <<>>

NextValidate ==
    /\ FirstParse \in parses
    /\ \E data \in ValidateTables : ParseComplete(FirstParse, data)

\* The complete callback of one parse, over every enumerated table.
SpecValidate == InitParsing /\ [][NextValidate]_vars

\* ------------------------------------------------ sanitizeCell on its own

\* Every string of at most MaxLen characters over: a letter, two white-space
\* characters, and the six characters the two replace calls remove.
SanitizeChars == {"a", " ", "\t", "<", ">", "'", "\"", Backtick, ";"}

RECURSIVE StringsOfLen(_)
StringsOfLen(n) ==
    IF n = 0 THEN {""}
    ELSE {s \o c : s \in StringsOfLen(n - 1), c \in SanitizeChars}

SanitizeInputs == UNION {StringsOfLen(n) : n \in 0..MaxLen}

InitSanitize ==
    /\ showUpload = FALSE
    /\ mount = 0
    /\ file = Null
    /\ preview = Null
    /\ isValidating = FALSE
    /\ parses = {}
    /\ attemptLog = <<>>
    /\ previewSrc = Null
    /\ uploads = <<>>
    /\ validated = Null
    /\ last = Last("init", 0, "none")
    /\ cellValue \in SanitizeInputs
    /\ cellImages = <<>>

\* sanitizeCell(value), then sanitizeCell of its result
ApplySanitizeCell ==
    /\ Len(cellImages) < 2
    /\ cellImages' = Append(cellImages,
                            sanitizeCell(IF cellImages = <<>> THEN cellValue
                                         ELSE cellImages[Len(cellImages)]))
    /\ UNCHANGED <<showUpload, mount, file, preview, isValidating, parses, attemptLog,
                   previewSrc, uploads, validated, last, cellValue>>

SpecSanitize == InitSanitize /\ [][ApplySanitizeCell]_vars

\* ------------------------------------------------------------------ claims

Attempts == 1..Len(attemptLog)
Range(seq) == {seq[i] : i \in 1..Len(seq)}
Rejections == {"FileTooLarge", "InvalidExtension", "ParseFailure", "SecurityValidationFailed"}
Oversize(f) == f.size > MAX_FILE_SIZE
WrongExtension(f) == ~EndsWith(f.name, ".csv")

\* C1: a processFile call on a file of more than 10,485,760 bytes emits the
\* "File too large" toast and nothing else, does not call Papa.parse for that
\* attempt (then or later), and leaves file, preview and isValidating as they were.
C1_OversizeRejected ==
    [][/\ \A a \in 1..Len(attemptLog') :
              Oversize(attemptLog'[a].file)
                  => /\ attemptLog'[a].parseCalls = 0
                     /\ \A p \in parses' : p.attempt # a
                     /\ attemptLog'[a].toasts = <<FileTooLargeToast>>
                     /\ attemptLog'[a].toasts[1].title = "File too large"
       /\ (/\ Len(attemptLog') = Len(attemptLog) + 1
           /\ Oversize(attemptLog'[Len(attemptLog')].file))
              => UNCHANGED <<file, preview, isValidating, parses>>]_vars

C1_Witness ==
    \E a \in Attempts :
        /\ Oversize(attemptLog[a].file)
        /\ attemptLog[a].outcome = "FileTooLarge"
        /\ last = Last("processFile", a, "FileTooLarge")

\* C2 as stated: every processFile call on a file whose name does not end in
\* ".csv", whatever its size, is rejected with the "Invalid file type" toast
\* before Papa.parse is called.
C2_Original ==
    \A a \in Attempts :
        WrongExtension(attemptLog[a].file)
            => /\ attemptLog[a].toasts = <<InvalidTypeToast>>
               /\ attemptLog[a].parseCalls = 0

\* C2 amended: a file whose name does not end in ".csv" and whose size is at
\* most 10,485,760 bytes is rejected with the "Invalid file type" toast and
\* Papa.parse is not called; one that is also larger than that is rejected with
\* the "File too large" toast instead, again without a parse.
C2_WrongExtensionRejected ==
    \A a \in Attempts :
        WrongExtension(attemptLog[a].file)
            => /\ attemptLog[a].parseCalls = 0
               /\ \A p \in parses : p.attempt # a
               /\ attemptLog[a].toasts =
                      IF Oversize(attemptLog[a].file)
                      THEN <<FileTooLargeToast>> ELSE <<InvalidTypeToast>>
               /\ attemptLog[a].outcome =
                      IF Oversize(attemptLog[a].file)
                      THEN "FileTooLarge" ELSE "InvalidExtension"

C2_Witness ==
    \E a \in Attempts :
        /\ WrongExtension(attemptLog[a].file)
        /\ ~Oversize(attemptLog[a].file)
        /\ attemptLog[a].toasts = <<InvalidTypeToast>>

\* a match of the expression somewhere in the cell, whatever lastIndex was
SqlLike(cell) == SqlTests[cell][0].matched
ScriptLike(cell) == ScriptTests[cell][0].matched

\* C3 as stated: for a non-empty table, every cell the SQL-like pattern matches
\* has its "Potential SQL injection detected at row r, column c" violation in
\* the report, and every cell the script-like pattern matches its "Potential
\* script injection" violation, whatever the cells scanned before it hold.
C3_EveryMatchingCellReported ==
    validated # Null =>
        LET data == Get(validated).data
            errors == Range(Get(validated).report.errors)
        IN  \A r \in 1..Len(data.rows) :
                \A c \in 1..Len(data.rows[r]) :
                    /\ SqlLike(data.rows[r][c]) => SqlMsg(r, c) \in errors
                    /\ ScriptLike(data.rows[r][c]) => ScriptMsg(r, c) \in errors

\* C4: whenever preview is not null it was set by the complete callback of an
\* attempt that ended Ready, from a table with at least one row whose report is
\* valid: no violation in the report, no row-limit excess, no rejected header
\* cell, no cell that either injection pattern matches.
C4_PreviewOnlyFromValidTable ==
    preview # Null =>
        /\ previewSrc # Null
        /\ LET src == Get(previewSrc)
               report == validateCSVContent(src.data)
           IN  /\ src.attempt \in Attempts
               /\ attemptLog[src.attempt].outcome = "Ready"
               /\ attemptLog[src.attempt].parseCalls = 1
               /\ DataLength(src.data) > 0
               /\ DataLength(src.data) <= MAX_ROWS
               /\ report.isValid
               /\ report.errors = <<>>
               /\ \A c \in 1..Len(RowAt(src.data, 1)) : HeaderTests[RowAt(src.data, 1)[c]]
               /\ \A r \in 1..Len(src.data.rows) :
                      \A c \in 1..Len(src.data.rows[r]) :
                          /\ ~SqlLike(src.data.rows[r][c])
                          /\ ~ScriptLike(src.data.rows[r][c])

C4_Witness ==
    /\ preview # Null
    /\ previewSrc # Null
    /\ last.op = "complete"
    /\ last.outcome = "Ready"

\* C5 as stated: at most one Papa.parse call is outstanding at any time.
C5_SingleOutstandingParse == Cardinality(parses) <= 1

ReasonTitle(outcome) ==
    CASE outcome = "FileTooLarge" -> "File too large"
      [] outcome = "InvalidExtension" -> "Invalid file type"
      [] outcome = "ParseFailure" -> "Parse error"
      [] outcome = "SecurityValidationFailed" -> "Security validation failed"

\* C6: every rejected attempt (oversize, wrong extension, parse error, failed
\* validation) has emitted exactly one toast, destructive and titled by its
\* reason; an attempt that is oversize and has a wrong extension has emitted
\* exactly one; an attempt still parsing has emitted none.
C6_OneToastPerRejection ==
    \A a \in Attempts :
        LET r == attemptLog[a]
        IN  /\ r.outcome \in Rejections
                => /\ Len(r.toasts) = 1
                   /\ r.toasts[1].title = ReasonTitle(r.outcome)
                   /\ r.toasts[1].variant = "destructive"
            /\ (Oversize(r.file) \/ WrongExtension(r.file))
                => r.outcome \in Rejections /\ Len(r.toasts) = 1
            /\ r.outcome = "Parsing" => r.toasts = <<>>

C6_Witness ==
    /\ \E a \in Attempts :
           /\ Oversize(attemptLog[a].file)
           /\ WrongExtension(attemptLog[a].file)
           /\ Len(attemptLog[a].toasts) = 1
    /\ \E a \in Attempts : attemptLog[a].outcome = "SecurityValidationFailed"
    /\ \E a \in Attempts : attemptLog[a].outcome = "ParseFailure"

\* C7 as stated: right after any rejection (by a guard, by the error callback
\* or by a failed validation) file is null, isValidating is false and preview
\* is null.
C7_RejectionResetsState ==
    last.outcome \in Rejections
        => /\ file = Null
           /\ isValidating = FALSE
           /\ preview = Null

\* C8: for a table with zero rows validateCSVContent returns isValid = false
\* and exactly one violation, "CSV file is empty".
C8_EmptyTableReport ==
    (validated # Null /\ DataLength(Get(validated).data) = 0)
        => /\ Get(validated).report.isValid = FALSE
           /\ Len(Get(validated).report.errors) = 1
           /\ Get(validated).report.errors[1] = "CSV file is empty"

C8_Witness ==
    /\ validated # Null
    /\ DataLength(Get(validated).data) = 0
    /\ last.outcome = "SecurityValidationFailed"

\* C9: every report validateCSVContent returns has isValid = true exactly when
\* its violation list is empty.
C9_ValidIffNoErrors ==
    validated # Null
        => (Get(validated).report.isValid <=> Len(Get(validated).report.errors) = 0)

C9_Witness ==
    /\ validated # Null
    /\ Get(validated).report.isValid
    /\ DataLength(Get(validated).data) > 0

\* a character outside letters, digits, underscore and white space
HasForbiddenChar(s) == \E i \in 0..(Len(s) - 1) : CharAt(s, i) \notin WordChars \cup SpaceChars
HeaderPrefix == "Invalid header at column "
StartsWith(s, prefix) == Len(s) >= Len(prefix) /\ SubSeq(s, 1, Len(prefix)) = prefix
IsHeaderError(e) == StartsWith(e, HeaderPrefix)
\* the violation the header rule owes column i (1-based) holding value
HeaderViolation(i, value) == HeaderPrefix \o ToString(i) \o ": \"" \o value \o "\""
Count(seq, e) == Cardinality({i \in 1..Len(seq) : seq[i] = e})

\* C10: for a non-empty table, each header cell with a character outside
\* letters, digits, underscore and white space has exactly one violation
\* 'Invalid header at column i: "<value>"' with its 1-based index i; a header
\* cell of one or more allowed characters has none; and no other violation of
\* the report is a header violation, so no other row is put to the header rule.
C10_HeaderViolations ==
    (validated # Null /\ DataLength(Get(validated).data) > 0) =>
        LET data == Get(validated).data
            errors == Get(validated).report.errors
            headers == RowAt(data, 1)
            rejected == {i \in 1..Len(headers) :
                             HasForbiddenChar(headers[i]) \/ headers[i] = ""}
        IN  /\ \A i \in 1..Len(headers) :
                   /\ HasForbiddenChar(headers[i])
                          => Count(errors, HeaderViolation(i, headers[i])) = 1
                   /\ (headers[i] # "" /\ ~HasForbiddenChar(headers[i]))
                          => \A e \in Range(errors) :
                                 ~StartsWith(e, HeaderPrefix \o ToString(i) \o ":")
            /\ {e \in Range(errors) : IsHeaderError(e)}
                   = {HeaderViolation(i, headers[i]) : i \in rejected}
            /\ Cardinality({k \in 1..Len(errors) : IsHeaderError(errors[k])})
                   = Cardinality(rejected)

C10_Witness ==
    /\ validated # Null
    /\ Len(Get(validated).data.rows) >= 2
    /\ \E i \in 1..Len(Get(validated).data.rows[1]) :
           /\ HasForbiddenChar(Get(validated).data.rows[1][i])
           /\ HeaderViolation(i, Get(validated).data.rows[1][i])
                  \in Range(Get(validated).report.errors)
    /\ \E c \in 1..Len(Get(validated).data.rows[2]) :
           HasForbiddenChar(Get(validated).data.rows[2][c])

\* the violations the injection rules owe one cell, the SQL one first
CellViolations(cell, r, c) ==
    (IF SqlLike(cell) THEN <<SqlMsg(r, c)>> ELSE <<>>)
        \o (IF ScriptLike(cell) THEN <<ScriptMsg(r, c)>> ELSE <<>>)

RECURSIVE RowViolations(_, _, _)
RowViolations(row, r, c) ==
    IF c > Len(row) THEN <<>>
    ELSE CellViolations(row[c], r, c) \o RowViolations(row, r, c + 1)

\* row-major over the rows written out; the filler rows hold one clean cell
RECURSIVE TableViolations(_, _)
TableViolations(rows, r) ==
    IF r > Len(rows) THEN <<>>
    ELSE RowViolations(rows[r], r, 1) \o TableViolations(rows, r + 1)

RECURSIVE HeaderViolationsFrom(_, _)
HeaderViolationsFrom(headers, i) ==
    IF i > Len(headers) THEN <<>>
    ELSE (IF HasForbiddenChar(headers[i]) \/ headers[i] = ""
          THEN <<HeaderViolation(i, headers[i])>> ELSE <<>>)
             \o HeaderViolationsFrom(headers, i + 1)

RowLimitViolation(n) ==
    IF n > 100000 THEN <<"CSV exceeds maximum row limit of 100,000">> ELSE <<>>

\* C11 as stated: for a non-empty table the violation list is the row-limit
\* violation (for more than 100,000 rows, not for exactly 100,000), then the
\* header violations in column order, then the injection violations of the
\* cells in row-major order, the SQL violation before the script violation of
\* the same cell; no check is skipped because an earlier one failed.
C11_ViolationListInOrder ==
    (validated # Null /\ DataLength(Get(validated).data) > 0) =>
        LET data == Get(validated).data
        IN  Get(validated).report.errors
                = RowLimitViolation(DataLength(data))
                      \o HeaderViolationsFrom(RowAt(data, 1), 1)
                      \o TableViolations(data.rows, 1)

RemovedChars == {"<", ">", "'", "\"", Backtick, ";"}

\* C12: sanitizeCell(sanitizeCell(x)) = sanitizeCell(x) for every string x,
\* also where removing < > ' " ` ; leaves white space at either end.
C12_SanitizeCellIdempotent ==
    Len(cellImages) = 2 => cellImages[2] = cellImages[1]

C12_Witness ==
    /\ Len(cellImages) = 2
    /\ Trim(cellValue) = cellValue
    /\ Trim(RemoveChars(cellValue, RemovedChars)) # RemoveChars(cellValue, RemovedChars)
    /\ cellImages[1] = Trim(RemoveChars(cellValue, RemovedChars))
    /\ cellImages[1] # ""

\* none of the six characters, no white space at either end
IsSanitized(s) ==
    /\ \A i \in 0..(Len(s) - 1) : CharAt(s, i) \notin RemovedChars
    /\ (s # "" => ~IsSpace(CharAt(s, 0)) /\ ~IsSpace(CharAt(s, Len(s) - 1)))
StoredCells == Cells \cup {sanitizeCell(s) : s \in Cells}
SanitizedForm == [s \in StoredCells |-> IsSanitized(s)]
CellImage == [s \in Cells |-> sanitizeCell(s)]

\* rows is, cell by cell, the sanitizeCell image of the first rows of data
ImageOfParsed(rows, data) ==
    /\ Len(rows) <= DataLength(data)
    /\ \A r \in 1..Len(rows) :
           /\ Len(rows[r]) = Len(RowAt(data, r))
           /\ \A c \in 1..Len(rows[r]) :
                  /\ rows[r][c] = CellImage[RowAt(data, r)[c]]
                  /\ SanitizedForm[rows[r][c]]

\* C13: whenever preview is not null, every cell of every row of it, the
\* header row and every column included, is the sanitizeCell image of the
\* parsed cell at its place, holds none of < > ' " ` ; and has no white space
\* at either end; the same holds of every preview handed to onUpload, and file
\* holds a name and a size only.
C13_OnlySanitizedCellsStored ==
    /\ preview # Null => previewSrc # Null /\ ImageOfParsed(Get(preview), Get(previewSrc).data)
    /\ \A i \in 1..Len(uploads) :
           uploads[i].src # Null /\ ImageOfParsed(uploads[i].preview, Get(uploads[i].src).data)
    /\ file # Null => DOMAIN Get(file) = {"name", "size", "attempt"}

C13_Witness ==
    /\ preview # Null
    /\ \E c \in 1..Len(Get(preview)[1]) : Get(preview)[1][c] = "name"
    /\ \E r \in 1..Len(Get(preview)) :
           \E c \in 1..Len(Get(preview)[r]) :
               /\ ~SanitizedForm[RowAt(Get(previewSrc).data, r)[c]]
               /\ Get(preview)[r][c] # RowAt(Get(previewSrc).data, r)[c]
    /\ \E i \in 1..Len(uploads) :
           \E r \in 1..Len(uploads[i].preview) :
               \E c \in 1..Len(uploads[i].preview[r]) :
                   uploads[i].preview[r][c] # RowAt(Get(uploads[i].src).data, r)[c]

\* C14: the preview stored for a valid table of n rows has min(5, n) rows, the
\* first min(5, n) rows of the sanitized table in their order (5 for 200 rows,
\* 3 for 3 rows); no component state holds a row beyond the fifth.
C14_PreviewIsFirstFiveRows ==
    preview # Null =>
        /\ previewSrc # Null
        /\ LET rows == Get(preview)
               data == Get(previewSrc).data
               n == DataLength(data)
           IN  /\ Len(rows) = (IF n < 5 THEN n ELSE 5)
               /\ n = 200 => Len(rows) = 5
               /\ n = 3 => Len(rows) = 3
               /\ \A r \in 1..Len(rows) :
                      rows[r] = [c \in 1..Len(RowAt(data, r)) |-> CellImage[RowAt(data, r)[c]]]

C14_Witness ==
    /\ preview # Null
    /\ DataLength(Get(previewSrc).data) = 200
    /\ Len(Get(preview)) = 5
    /\ Get(preview)[2] = <<"1", "bx/b">>
    /\ Get(preview)[5] = FillerRow
    /\ last.outcome = "Ready"

GuardOutcomes == {"FileTooLarge", "InvalidExtension"}
CallbackOutcomes == {"ParseFailure", "SecurityValidationFailed", "Ready"}
TerminalOutcomes == GuardOutcomes \cup CallbackOutcomes

\* one step of the attempt log: attempts are added at the end, an attempt
\* starts rejected by a guard (no parse call) or parsing (one parse call), a
\* parsing attempt stays parsing or ends in one callback outcome with one
\* toast, an ended attempt never changes, and no attempt is parsed again
ForwardStep ==
    /\ Len(attemptLog') >= Len(attemptLog)
    /\ \A a \in 1..Len(attemptLog') :
           LET new == attemptLog'[a]
           IN  IF a > Len(attemptLog)
               THEN \/ new.outcome \in GuardOutcomes /\ new.parseCalls = 0
                    \/ new.outcome = "Parsing" /\ new.parseCalls = 1 /\ new.toasts = <<>>
               ELSE /\ new.parseCalls = attemptLog[a].parseCalls
                    /\ new.file = attemptLog[a].file
                    /\ attemptLog[a].outcome \in TerminalOutcomes => new = attemptLog[a]
                    /\ attemptLog[a].outcome = "Parsing"
                           => \/ new = attemptLog[a]
                              \/ /\ new.outcome \in CallbackOutcomes
                                 /\ Len(new.toasts) = 1
                                 /\ \A p \in parses' : p.attempt # a
    /\ \A p \in parses' : p.attempt <= Len(attemptLog') /\ attemptLog'[p.attempt].outcome = "Parsing"

Started(a) == Len(attemptLog) >= a
Ended(a) == IF Len(attemptLog) >= a THEN attemptLog[a].outcome \in TerminalOutcomes ELSE FALSE

\* C15: given that the parser delivers the callback of every parse call, every
\* attempt ends in exactly one of Rejected (by a guard), ParseFailed, Invalid
\* and Ready; its stages are passed in order and none is entered again; and
\* the parser is called at most once per attempt.
C15_ForwardToOneOutcome ==
    /\ [][ForwardStep]_vars
    /\ \A a \in 1..MaxAttempts : Started(a) ~> Ended(a)

C15_Witness ==
    /\ Len(attemptLog) = 3
    /\ parses = {}
    /\ {attemptLog[a].outcome : a \in Attempts} \subseteq TerminalOutcomes
    /\ attemptLog[1].outcome = "Ready"
    /\ attemptLog[2].outcome \in {"ParseFailure", "SecurityValidationFailed"}
    /\ attemptLog[3].outcome \in GuardOutcomes

\* C16 as stated: in every onUpload(file, preview) event the preview was built
\* from the parse of that same file, that file's attempt ended Ready (its
\* report was valid), and no parse of that file was outstanding, whatever the
\* order of selections, Clear clicks and late callbacks of earlier attempts.
C16_UploadOfValidatedFile ==
    \A i \in 1..Len(uploads) :
        LET u == uploads[i]
        IN  /\ u.src # Null
            /\ Get(u.src).attempt = u.file.attempt
            /\ u.preview = SanitizedPreview(Get(u.src).data)
            /\ attemptLog[u.file.attempt].outcome # "Parsing"
            /\ attemptLog[u.file.attempt].outcome # "SecurityValidationFailed"
            /\ u.file.attempt \notin u.outstanding

\* the attempts whose complete callback ran in this step and found violations
FailedNow ==
    {p.attempt : p \in {q \in parses \ parses' :
                            /\ attemptLog[q.attempt].outcome = "Parsing"
                            /\ attemptLog'[q.attempt].outcome = "SecurityValidationFailed"}}

InvalidCompletion ==
    \A a \in FailedNow :
        LET report == Get(validated').report
            shown == attemptLog[a].mount = mount /\ showUpload
        IN  /\ ~report.isValid
            /\ Len(report.errors) >= 1
            /\ attemptLog'[a].toasts
                   = <<[title |-> "Security validation failed",
                        description |-> report.errors[1],
                        variant |-> "destructive"]>>
            /\ UNCHANGED <<preview, previewSrc, uploads>>
            /\ shown => file' = Null /\ isValidating' = FALSE
            /\ file' = Null \/ Get(file').attempt # a

NoUploadOfFailedFile ==
    Len(uploads') > Len(uploads)
        => attemptLog[uploads'[Len(uploads')].file.attempt].outcome # "SecurityValidationFailed"

NoPreviewOfFailedAttempt ==
    \A a \in Attempts :
        attemptLog[a].outcome = "SecurityValidationFailed"
            => /\ previewSrc # Null => Get(previewSrc).attempt # a
               /\ \A i \in 1..Len(uploads) :
                      uploads[i].src # Null => Get(uploads[i].src).attempt # a
               /\ file # Null => Get(file).attempt # a

\* C17: when the report of the complete callback holds a violation, the
\* callback emits the destructive "Security validation failed" toast whose
\* description is the first violation of the list and nothing else, builds no
\* preview for the attempt (then or later), and sets file to null; from then
\* on the file of that attempt is not the selected file and no onUpload event
\* carries it.
C17_InvalidReportAborts ==
    /\ [][InvalidCompletion /\ NoUploadOfFailedFile]_vars
    /\ []NoPreviewOfFailedAttempt

C17_Witness ==
    /\ last.op = "complete"
    /\ last.outcome = "SecurityValidationFailed"
    /\ showUpload
    /\ attemptLog[last.attempt].mount = mount
    /\ file = Null
    /\ Len(Get(validated).report.errors) >= 2
    /\ attemptLog[last.attempt].toasts[1].description = Get(validated).report.errors[1]
    /\ Get(validated).report.errors[1] # Get(validated).report.errors[2]
====
